---- MODULE Spec2Model ----
(***************************************************************************)
(* Alpha-beta minimax with a transposition table (AlphaBeta_Full.py),      *)
(* searched over the two games of the repository: TicTacToe.py and         *)
(* SithVRebels_variant.py, driven by the game loop of play_full_games.py   *)
(* and the player interfaces of Players.py.                                *)
(*                                                                         *)
(* The recursion of __max_value/__min_value is modelled with an explicit   *)
(* call stack: one frame per invocation that reached the expansion branch. *)
(* Python's None is the empty tuple <<>>; an optional value is a sequence  *)
(* of length 0 or 1.  TicTacToe's values are floats in [-1, 1]; the model  *)
(* keeps them as integers in sixteenths (Unit = 1.0).                      *)
(***************************************************************************)
EXTENDS Integers, Sequences, FiniteSets, TLC

VARIABLES
    game,                 \* "ttt" or "svr": the Game module in use
    depth_limit,          \* Game.depth_limit
    move_limit,           \* Game.move_limit (SithVRebels)
    dim,                  \* Game.dim (SithVRebels)
    rng,                  \* the state of the generator behind rand.random()
    state,                \* the game loop's current state
    humans,               \* moves chosen so far by HumanMenu.ask_move
    nodes_expanded,       \* Minimax.nodes_expanded
    transposition_table,  \* Minimax.transposition_table
    stack,                \* frames of the decision and of __max/__min_value
    ret,                  \* value returned by the invocation that just ended
    rec,                  \* the SearchTerminationRecord of the last decision
    by_fresh,             \* that decision's engine had made no decision before
    prev                  \* an earlier decision on this same state, if any

vars == <<game, depth_limit, move_limit, dim, rng, state, humans, nodes_expanded, transposition_table, stack, ret,
          rec, by_fresh, prev>>

config == <<game, depth_limit, move_limit, dim>>

(***************************************************************************)
(* Bounds of the model.                                                    *)
(***************************************************************************)
MaxHumanMoves == 2    \* opening moves HumanMenu may choose in one game
NumSeeds == 2         \* seeds tried for the random generator
SvrDim == 3           \* the board of SithVRebels is SvrDim x SvrDim
SvrDeepLimit == 3     \* the depth limit tried for SithVRebels
SvrMoveLimit == 6     \* the move limit tried for SithVRebels
BoardMoveLimit == 8   \* the move limit tried on the default 5x5 board

None == <<>>

Max2(a, b) == IF a >= b THEN a ELSE b
Min2(a, b) == IF a <= b THEN a ELSE b

ifny == 2^20

(***************************************************************************)
(* TicTacToe.py                                                            *)
(***************************************************************************)
Unit == 16

InSeq(x, seq) == \E i \in 1..Len(seq) : seq[i] = x

\* list.remove and set.remove: drops the first occurrence
Remove(seq, x) ==
    LET i == CHOOSE j \in 1..Len(seq) :
                 seq[j] = x /\ \A k \in 1..(j - 1) : seq[k] # x
    IN SubSeq(seq, 1, i - 1) \o SubSeq(seq, i + 1, Len(seq))

Cells == (1..3) \X (1..3)

RowMajor == [i \in 1..9 |-> <<((i - 1) \div 3) + 1, ((i - 1) % 3) + 1>>]

\* blanks is a set of tuples, and actions() lists it in the order the set
\* iterates.  A set of five or more of these cells lives in a table of 32
\* slots and iterates by hash(cell) mod 32, which is this order:
HashOrder ==
    << <<1, 2>>, <<2, 1>>, <<3, 1>>, <<1, 1>>, <<2, 3>>, <<3, 3>>, <<2, 2>>,
       <<3, 2>>, <<1, 3>> >>

\* A set of four or fewer cells lives in a table of 8 slots: each cell goes
\* to the first free slot of its probe sequence (cells in row-major order)
Probes8 ==
    << <<2, 0, 7, 4>>, <<3, 2, 0, 1>>, <<4, 1, 7, 0>>,
       <<5, 4, 2, 3>>, <<7, 4, 1, 2>>, <<0, 4, 3, 2>>,
       <<0, 5, 1, 7>>, <<2, 5, 7, 6>>, <<3, 5, 1, 0>> >>

FirstFree(table, probes) ==
    LET i == CHOOSE j \in 1..Len(probes) :
                 /\ table[probes[j] + 1] = <<>>
                 /\ \A k \in 1..(j - 1) : table[probes[k] + 1] # <<>>
    IN probes[i] + 1

EmptyTable8 == << <<>>, <<>>, <<>>, <<>>, <<>>, <<>>, <<>>, <<>> >>

Place(table, c) ==
    [table EXCEPT ![FirstFree(table, Probes8[3 * (c[1] - 1) + c[2]])] = c]

RECURSIVE Fill8(_, _)
Fill8(seq, table) ==
    IF seq = <<>> THEN table ELSE Fill8(Tail(seq), Place(table, Head(seq)))

\* {v for v in ...}: the iteration order of the set built by adding the
\* elements of seq one after the other
SetIter(seq) ==
    IF Len(seq) >= 5
    THEN SelectSeq(HashOrder, LAMBDA c : InSeq(c, seq))
    ELSE SelectSeq(Fill8(seq, EmptyTable8), LAMBDA c : c # <<>>)

\* a string that tells taken cells from blank ones, not X from O
StrOneToken(gameState) ==
    [i \in 1..9 |-> IF gameState[RowMajor[i]] = " " THEN " " ELSE "X"]

\* GameState.__str__: the nine cells, row by row
TStr(gameState) == [i \in 1..9 |-> gameState[RowMajor[i]]]

\* GameState.__init__
TInitialState ==
    LET gs == [rc \in Cells |-> " "]
    IN [gameState |-> gs, blanks |-> SetIter(RowMajor), maxs_turn |-> TRUE,
        cachedWin |-> FALSE, cachedWinner |-> "None", stringified |-> TStr(gs)]

TIsTerminal(s) == s.cachedWin \/ Len(s.blanks) = 0

TActions(s) == [i \in 1..Len(s.blanks) |-> <<s.maxs_turn, s.blanks[i]>>]

\* a win check that looks at the row and the column of the move only
CacheWinnerRowColumn(who, where, s) ==
    LET token == IF who THEN "X" ELSE "O"
    IN IF \/ \A r \in 1..3 : s.gameState[<<r, where[2]>>] = token
          \/ \A c \in 1..3 : s.gameState[<<where[1], c>>] = token
       THEN [s EXCEPT !.cachedWin = TRUE,
                      !.cachedWinner = IF who THEN "True" ELSE "False"]
       ELSE s

\* Game._cache_winner: only the lines through the move just made
TCacheWinner(who, where, s) ==
    LET token == IF who THEN "X" ELSE "O"
        r0 == where[1]
        c0 == where[2]
        won == \/ \A r \in 1..3 : s.gameState[<<r, c0>>] = token
               \/ \A c \in 1..3 : s.gameState[<<r0, c>>] = token
               \/ r0 = c0 /\ \A d \in 1..3 : s.gameState[<<d, d>>] = token
               \/ r0 + c0 = 4 /\ \A d \in 1..3 : s.gameState[<<d, 4 - d>>] = token
    IN IF won
       THEN [s EXCEPT !.cachedWin = TRUE,
                      !.cachedWinner = IF who THEN "True" ELSE "False"]
       ELSE s

\* GameState.myclone copies blanks into a new set
TClone(s) == [s EXCEPT !.blanks = SetIter(s.blanks)]

TResult(s, action) ==
    LET who == action[1]
        where == action[2]
        new_state == TClone(s)
        s1 == [new_state EXCEPT !.blanks = Remove(new_state.blanks, where),
                                !.gameState[where] = IF who THEN "X" ELSE "O",
                                !.maxs_turn = ~s.maxs_turn]
        s2 == TCacheWinner(who, where, s1)
    IN [s2 EXCEPT !.stringified = TStr(s2.gameState)]

TUtility(s) ==
    IF s.cachedWin /\ s.cachedWinner = "True" THEN Unit
    ELSE IF s.cachedWin /\ s.cachedWinner # "True" THEN -Unit
    ELSE 0

\* a cutoff test in which a depth limit of 0 does not mean "no limit"
CutoffWithoutUnlimited(s, depth) == depth > depth_limit

TCutoffTest(s, depth) == depth_limit > 0 /\ depth > depth_limit

\* rand.random(): a full-period congruential generator over 0..Unit-1
RandomNext(r) == (5 * r + 3) % Unit

\* rand.random()*2 - 1, in sixteenths
TEvalRandom(r) == 2 * r - Unit

(***************************************************************************)
(* SithVRebels_variant.py                                                  *)
(***************************************************************************)
DefaultDim == 5

RECURSIVE Flatten(_)
Flatten(seqs) == IF seqs = <<>> THEN <<>> ELSE Head(seqs) \o Flatten(Tail(seqs))

\* GameState.__str__: rows 0..dim-1 of the state's own dim
SStr(d, sith, rebels, jedi) ==
    [i \in 1..(d * d) |->
        LET rc == <<(i - 1) \div d, (i - 1) % d>>
        IN IF InSeq(rc, sith) THEN "S"
           ELSE IF InSeq(rc, rebels) THEN "R"
           ELSE IF InSeq(rc, jedi) THEN "J"
           ELSE " "]

SOccupied(s, r, c) ==
    InSeq(<<r, c>>, s.rebels) \/ InSeq(<<r, c>>, s.jedi) \/ InSeq(<<r, c>>, s.sith)

\* Game.initial_state: GameState(dim=self.dim), one Sith, a row of Rebels
SInitialState ==
    LET sith == <<<<dim - 1, dim \div 2>>>>
        rebels == [c \in 1..dim |-> <<0, c - 1>>]
    IN [dim |-> dim, sith |-> sith, rebels |-> rebels, jedi |-> <<>>,
        maxs_turn |-> TRUE, cachedTerminal |-> FALSE, cachedOutcome |-> "None",
        stringified |-> SStr(dim, sith, rebels, <<>>), moves_made |-> 0]

SIsTerminal(s) == s.cachedTerminal \/ s.moves_made > move_limit

SInBounds(r, c) == 0 <= r /\ r < dim /\ 0 <= c /\ c < dim

Dirs == << <<1, 1>>, <<1, 0>>, <<1, -1>>, <<0, -1>>,
           <<-1, -1>>, <<-1, 0>>, <<-1, 1>>, <<0, 1>> >>

SSithActions(s) ==
    Flatten([n \in 1..Len(s.sith) |->
        LET sr == s.sith[n][1]
            sc == s.sith[n][2]
        IN SelectSeq([k \in 1..8 |-> <<sr, sc, sr + Dirs[k][1], sc + Dirs[k][2]>>],
                     LAMBDA a : SInBounds(a[3], a[4]) /\ ~InSeq(<<a[3], a[4]>>, s.sith))])

SRebelActions(s) ==
    Flatten([n \in 1..Len(s.rebels) |->
        LET rr == s.rebels[n][1]
            rc == s.rebels[n][2]
        IN IF SInBounds(rr + 1, rc) /\ ~SOccupied(s, rr + 1, rc)
           THEN <<<<rr, rc, rr + 1, rc>>>> ELSE <<>>])

\* the walk from (jr, jc) along (dr, dc), from step i on
RECURSIVE SJediWalk(_, _, _, _, _, _)
SJediWalk(s, jr, jc, dr, dc, i) ==
    LET r == jr + i * dr
        c == jc + i * dc
    IN IF SInBounds(r, c) /\ ~SOccupied(s, r, c)
       THEN <<<<jr, jc, r, c>>>> \o SJediWalk(s, jr, jc, dr, dc, i + 1)
       ELSE IF InSeq(<<r, c>>, s.sith) THEN <<<<jr, jc, r, c>>>> ELSE <<>>

SJediActions(s) ==
    Flatten([n \in 1..Len(s.jedi) |->
        Flatten([k \in 1..8 |->
            SJediWalk(s, s.jedi[n][1], s.jedi[n][2], Dirs[k][1], Dirs[k][2], 1)])])

\* actions without the pass convention
ActionsWithoutPass(s) ==
    IF s.maxs_turn THEN SRebelActions(s) \o SJediActions(s) ELSE SSithActions(s)

SActions(s) ==
    IF s.maxs_turn
    THEN LET some == SRebelActions(s) \o SJediActions(s)
         IN IF Len(some) = 0 THEN <<None>> ELSE some
    ELSE SSithActions(s)

\* GameState.myclone: GameState() is built with the default dim
SClone(s) == [s EXCEPT !.dim = DefaultDim]

SPlayer1Result(s, new_state, action) ==
    LET old == <<action[1], action[2]>>
        new == <<action[3], action[4]>>
        n1 == IF InSeq(new, new_state.sith)
              THEN [new_state EXCEPT !.sith = Remove(new_state.sith, new)]
              ELSE new_state
    IN IF InSeq(old, s.rebels)
       THEN IF new[1] = dim - 1
            THEN [n1 EXCEPT !.rebels = Remove(n1.rebels, old),
                            !.jedi = Append(n1.jedi, new)]
            ELSE [n1 EXCEPT !.rebels = Append(Remove(n1.rebels, old), new)]
       ELSE [n1 EXCEPT !.jedi = Append(Remove(n1.jedi, old), new)]

SPlayer2Result(s, new_state, action) ==
    LET old == <<action[1], action[2]>>
        new == <<action[3], action[4]>>
    IN IF InSeq(new, s.rebels)
       THEN [new_state EXCEPT !.rebels = Remove(new_state.rebels, new),
                              !.sith = Append(Remove(new_state.sith, old), new)]
       ELSE IF InSeq(new, s.jedi)
       THEN [new_state EXCEPT !.jedi = Remove(new_state.jedi, new),
                              !.sith = Append(new_state.sith, new)]
       ELSE [new_state EXCEPT !.sith = Append(Remove(new_state.sith, old), new)]

SCacheOutcome(s) ==
    IF Len(s.sith) = 0
    THEN [s EXCEPT !.cachedTerminal = TRUE, !.cachedOutcome = "True"]
    ELSE IF Len(s.rebels) = 0 /\ Len(s.jedi) = 0
    THEN [s EXCEPT !.cachedTerminal = TRUE, !.cachedOutcome = "False"]
    ELSE [s EXCEPT !.cachedTerminal = FALSE, !.cachedOutcome = "None"]

SResult(s, action) ==
    LET n0 == [SClone(s) EXCEPT !.moves_made = s.moves_made + 1]
    IN IF action = None
       THEN [n0 EXCEPT !.cachedTerminal = TRUE, !.cachedOutcome = "None"]
       ELSE LET n1 == IF s.maxs_turn THEN SPlayer1Result(s, n0, action)
                      ELSE SPlayer2Result(s, n0, action)
                n2 == SCacheOutcome([n1 EXCEPT !.maxs_turn = ~s.maxs_turn])
            IN [n2 EXCEPT !.stringified = SStr(n2.dim, n2.sith, n2.rebels, n2.jedi)]

SUtility(s) ==
    IF s.cachedTerminal /\ s.cachedOutcome = "None" THEN 0
    ELSE IF s.cachedTerminal /\ s.cachedOutcome = "True" THEN 100
    ELSE IF s.cachedTerminal /\ s.cachedOutcome # "True" THEN -100
    ELSE 0

SCutoffTest(s, depth) == depth > depth_limit

\* an estimate on ten times the scale
EvalTimesTen(s) == 10 * (2 * Len(s.rebels) + 10 * Len(s.jedi) - 5 * Len(s.sith))

SEval(s) == 2 * Len(s.rebels) + 10 * Len(s.jedi) - 5 * Len(s.sith)

(***************************************************************************)
(* The same two result() functions on a heap of objects: a state object    *)
(* holds the addresses of its dict, set and lists, myclone() allocates new *)
(* ones, and result() writes through the clone's addresses.  A heap is a   *)
(* sequence of objects, an address an index into it.                       *)
(***************************************************************************)
\* TicTacToe GameState.__init__: a new dict, a new set, the new object
TNew(h) ==
    LET gs == [rc \in Cells |-> " "]
    IN [heap |-> h \o <<gs, SetIter(RowMajor),
                        [gameState |-> Len(h) + 1, blanks |-> Len(h) + 2,
                         maxs_turn |-> TRUE, cachedWin |-> FALSE,
                         cachedWinner |-> "None", stringified |-> TStr(gs)]>>,
        ref |-> Len(h) + 3]

\* the state object at address o with its containers read out
TDeref(h, o) ==
    [h[o] EXCEPT !.gameState = h[h[o].gameState], !.blanks = h[h[o].blanks]]

\* a heap that holds the state s, and its address
TAlloc(s) ==
    [heap |-> <<s.gameState, s.blanks, [s EXCEPT !.gameState = 1, !.blanks = 2]>>,
     ref |-> 3]

\* a clone whose blanks is the set of the original
ShareBlanks(h, self) == [heap |-> h, ref |-> h[self].blanks]

\* line 85: new_state.blanks = {v for v in self.blanks}, a new set
TCopyBlanks(h, self) ==
    [heap |-> h \o <<SetIter(h[h[self].blanks])>>, ref |-> Len(h) + 1]

\* GameState.myclone
TMyClone(h, self) ==
    LET n == TNew(h)
        new_state == n.ref
        h1 == [n.heap EXCEPT ![n.heap[new_state].gameState] =
                   [rc \in Cells |-> h[h[self].gameState][rc]]]
        b == TCopyBlanks(h1, self)
    IN [heap |-> [b.heap EXCEPT ![new_state] =
                     [@ EXCEPT !.blanks = b.ref,
                               !.maxs_turn = h[self].maxs_turn,
                               !.cachedWin = h[self].cachedWin,
                               !.cachedWinner = h[self].cachedWinner,
                               !.stringified = h[self].stringified]],
        ref |-> new_state]

\* Game.result: every write goes through new_state
THeapResult(h, st, action) ==
    LET who == action[1]
        where == action[2]
        c == TMyClone(h, st)
        new_state == c.ref
        h1 == [c.heap EXCEPT ![c.heap[new_state].blanks] = Remove(@, where)]
        h2 == [h1 EXCEPT ![h1[new_state].gameState] =
                   [@ EXCEPT ![where] = IF who THEN "X" ELSE "O"]]
        h3 == [h2 EXCEPT ![new_state].maxs_turn = ~h2[st].maxs_turn]
        w == TCacheWinner(who, where, TDeref(h3, new_state))
        h4 == [h3 EXCEPT ![new_state].cachedWin = w.cachedWin,
                         ![new_state].cachedWinner = w.cachedWinner]
    IN [heap |-> [h4 EXCEPT ![new_state].stringified =
                     TStr(h4[h4[new_state].gameState])],
        ref |-> new_state]

\* SithVRebels GameState.__init__ with the default dim: three new lists
SNew(h) ==
    [heap |-> h \o <<<<>>, <<>>, <<>>,
                     [dim |-> DefaultDim, sith |-> Len(h) + 1, rebels |-> Len(h) + 2,
                      jedi |-> Len(h) + 3, maxs_turn |-> TRUE,
                      cachedTerminal |-> FALSE, cachedOutcome |-> "None",
                      stringified |-> SStr(DefaultDim, <<>>, <<>>, <<>>),
                      moves_made |-> 0]>>,
     ref |-> Len(h) + 4]

SDeref(h, o) ==
    [h[o] EXCEPT !.sith = h[h[o].sith], !.rebels = h[h[o].rebels],
                 !.jedi = h[h[o].jedi]]

SAlloc(s) ==
    [heap |-> <<s.sith, s.rebels, s.jedi,
                [s EXCEPT !.sith = 1, !.rebels = 2, !.jedi = 3]>>,
     ref |-> 4]

\* lines 107-109: [s for s in self.sith], a new list
SCopyList(h, list) == [heap |-> h \o <<h[list]>>, ref |-> Len(h) + 1]

\* GameState.myclone
SMyClone(h, self) ==
    LET n == SNew(h)
        new_state == n.ref
        l1 == SCopyList(n.heap, h[self].sith)
        l2 == SCopyList(l1.heap, h[self].rebels)
        l3 == SCopyList(l2.heap, h[self].jedi)
    IN [heap |-> [l3.heap EXCEPT ![new_state] =
                     [@ EXCEPT !.sith = l1.ref, !.rebels = l2.ref, !.jedi = l3.ref,
                               !.maxs_turn = h[self].maxs_turn,
                               !.cachedTerminal = h[self].cachedTerminal,
                               !.cachedOutcome = h[self].cachedOutcome,
                               !.stringified = h[self].stringified,
                               !.moves_made = h[self].moves_made]],
        ref |-> new_state]

\* the lists and fields of the value v written through the object at o
SWrite(h, o, v) ==
    [h EXCEPT ![h[o].sith] = v.sith, ![h[o].rebels] = v.rebels, ![h[o].jedi] = v.jedi,
              ![o] = [v EXCEPT !.sith = h[o].sith, !.rebels = h[o].rebels,
                               !.jedi = h[o].jedi]]

\* Game.result: __player1_result, __player2_result and _cache_outcome work
\* on new_state's lists in place
SHeapResult(h, st, action) ==
    LET c == SMyClone(h, st)
        new_state == c.ref
        h1 == [c.heap EXCEPT ![new_state].moves_made = @ + 1]
    IN IF action = None
       THEN [heap |-> [h1 EXCEPT ![new_state].cachedTerminal = TRUE,
                                 ![new_state].cachedOutcome = "None"],
             ref |-> new_state]
       ELSE LET moved == IF h1[st].maxs_turn
                         THEN SPlayer1Result(SDeref(h1, st), SDeref(h1, new_state), action)
                         ELSE SPlayer2Result(SDeref(h1, st), SDeref(h1, new_state), action)
                h2 == SWrite(h1, new_state, moved)
                h3 == [h2 EXCEPT ![new_state].maxs_turn = ~h2[st].maxs_turn]
                h4 == SWrite(h3, new_state, SCacheOutcome(SDeref(h3, new_state)))
                n4 == SDeref(h4, new_state)
            IN [heap |-> [h4 EXCEPT ![new_state].stringified =
                             SStr(n4.dim, n4.sith, n4.rebels, n4.jedi)],
                ref |-> new_state]

(***************************************************************************)
(* The Game interface as the engine sees it.                               *)
(***************************************************************************)
\* the mirror of SithVRebels: the same states, actions and successors with
\* the sides swapped and utility and eval negated
Mirrored == game = "svr_mirror"

IsMaxsTurn(s) == IF Mirrored THEN ~s.maxs_turn ELSE s.maxs_turn

IsMinsTurn(s) == IF Mirrored THEN s.maxs_turn ELSE ~s.maxs_turn

IsTerminal(s) == IF game = "ttt" THEN TIsTerminal(s) ELSE SIsTerminal(s)

Actions(s) == IF game = "ttt" THEN TActions(s) ELSE SActions(s)

Result(s, a) == IF game = "ttt" THEN TResult(s, a) ELSE SResult(s, a)

Utility(s) ==
    IF game = "ttt" THEN TUtility(s)
    ELSE IF Mirrored THEN -SUtility(s) ELSE SUtility(s)

CutoffTest(s, depth) ==
    IF game = "ttt" THEN TCutoffTest(s, depth) ELSE SCutoffTest(s, depth)

Alloc(s) == IF game = "ttt" THEN TAlloc(s) ELSE SAlloc(s)

Deref(h, o) == IF game = "ttt" THEN TDeref(h, o) ELSE SDeref(h, o)

HeapResult(h, st, a) ==
    IF game = "ttt" THEN THeapResult(h, st, a) ELSE SHeapResult(h, st, a)

TranspositionString(s) == s.stringified

InitialState == IF game = "ttt" THEN TInitialState ELSE SInitialState

\* TicTacToe's eval draws from the generator unless it is held fixed
EvalIsRandom == game = "ttt"

Eval(s, r) ==
    IF game = "ttt" THEN TEvalRandom(r)
    ELSE IF Mirrored THEN -SEval(s) ELSE SEval(s)

(***************************************************************************)
(* AlphaBeta_Full.py                                                       *)
(***************************************************************************)
Top == stack[Len(stack)]

Pop == SubSeq(stack, 1, Len(stack) - 1)

IsRoot(f) == f.kind \in {"decision_max", "decision_min"}

IsMaxFrame(f) == f.kind \in {"decision_max", "max_value"}

\* line 66 and line 97: self.transposition_table = dict()
FreshTable == <<>>

\* a decision that resets the counter and does not count its root
RootNotCounted == 0 + 0

\* line 65 and 76, line 96 and 107: the counter is reset, then counts the root
RootCount == 0 + 1

\* line 150 and line 182: self.transposition_table[state_string] = best
StoreEntry(t, key, best) ==
    [k \in (DOMAIN t) \cup {key} |-> IF k = key THEN best ELSE t[k]]

\* a comparison that never finds a value better
NeverBetter(f, val) == FALSE

\* line 80, 144 (max) and line 111, 176 (min): is val better than best?
Better(f, val) == IF IsMaxFrame(f) THEN val > f.best ELSE val < f.best

\* a search whose every inner invocation returns after its first child
CutsOffAlways(f, best) == ~IsRoot(f)

\* a search without cutoffs
CutsOffNever(f, best) == FALSE

\* a search whose min side cuts off on best < alpha only
CutsOffMinStrict(f, best) ==
    /\ ~IsRoot(f)
    /\ IF IsMaxFrame(f) THEN best >= f.beta ELSE best < f.alpha

\* line 147 (best >= beta) and line 179 (best <= alpha)
CutsOff(f, best) ==
    /\ ~IsRoot(f)
    /\ IF IsMaxFrame(f) THEN best >= f.beta ELSE best <= f.alpha

\* a cutoff that stores its bound before it returns
StoreOnCutoff(t, key, best) == StoreEntry(t, key, best)

\* line 148 and line 180: return best, the table as it was
ReturnByCutoff(t, key, best) == t

\* the frame of an invocation that reached its expansion branch
NewFrame(kind, s, alpha, beta, depth) ==
    [kind |-> kind, st |-> s, alpha |-> alpha, beta |-> beta, depth |-> depth,
     best |-> IF kind \in {"decision_max", "max_value"} THEN -ifny ELSE ifny,
     best_action |-> None, acts |-> Actions(s)]

Idle == stack = <<>>

\* Minimax.__init__
NewEngine ==
    /\ Idle
    /\ nodes_expanded # 0 \/ transposition_table # <<>>
    /\ nodes_expanded' = 0
    /\ transposition_table' = <<>>
    /\ UNCHANGED <<config, rng, state, humans, stack, ret, rec, by_fresh, prev>>

\* ComputerInterface._ask_move_searcher, then minimax_decision_max/min up to
\* the loop over the root's actions
StartDecision ==
    /\ Idle
    /\ rec = None
    /\ ~IsTerminal(state)
    /\ nodes_expanded' = RootCount
    /\ transposition_table' = FreshTable
    /\ stack' = <<NewFrame(IF IsMaxsTurn(state) THEN "decision_max"
                           ELSE "decision_min", state, -ifny, ifny, 0)>>
    /\ ret' = None
    /\ by_fresh' = (nodes_expanded = 0)
    /\ UNCHANGED <<config, rng, state, humans, rec, prev>>

\* an invocation that tests the cutoff before it tests for a terminal state
CallCutoffFirst ==
    /\ ~Idle
    /\ ret = None
    /\ Top.acts # <<>>
    /\ LET f == Top
           child == Result(f.st, Head(f.acts))
           key == TranspositionString(child)
           depth == f.depth + 1
       IN IF key \in DOMAIN transposition_table
          THEN /\ ret' = <<transposition_table[key]>>
               /\ UNCHANGED <<rng, nodes_expanded, stack>>
          ELSE IF CutoffTest(child, depth)
          THEN /\ ret' = <<Eval(child, rng)>>
               /\ rng' = IF EvalIsRandom THEN RandomNext(rng) ELSE rng
               /\ UNCHANGED <<nodes_expanded, stack>>
          ELSE IF IsTerminal(child)
          THEN /\ ret' = <<Utility(child)>>
               /\ UNCHANGED <<rng, nodes_expanded, stack>>
          ELSE /\ nodes_expanded' = nodes_expanded + 1
               /\ stack' = Append(stack,
                      NewFrame(IF IsMaxFrame(f) THEN "min_value" ELSE "max_value",
                               child, f.alpha, f.beta, depth))
               /\ UNCHANGED <<rng, ret>>
    /\ UNCHANGED <<config, state, humans, transposition_table, rec, by_fresh, prev>>

\* the call of __min_value/__max_value on the next action's successor, up to
\* its return (table hit, terminal, cutoff) or its expansion branch
Call ==
    /\ ~Idle
    /\ ret = None
    /\ Top.acts # <<>>
    /\ LET f == Top
           child == Result(f.st, Head(f.acts))
           key == TranspositionString(child)
           depth == f.depth + 1
       IN IF key \in DOMAIN transposition_table
          THEN /\ ret' = <<transposition_table[key]>>
               /\ UNCHANGED <<rng, nodes_expanded, stack>>
          ELSE IF IsTerminal(child)
          THEN /\ ret' = <<Utility(child)>>
               /\ UNCHANGED <<rng, nodes_expanded, stack>>
          ELSE IF CutoffTest(child, depth)
          THEN /\ ret' = <<Eval(child, rng)>>
               /\ rng' = IF EvalIsRandom THEN RandomNext(rng) ELSE rng
               /\ UNCHANGED <<nodes_expanded, stack>>
          ELSE /\ nodes_expanded' = nodes_expanded + 1
               /\ stack' = Append(stack,
                      NewFrame(IF IsMaxFrame(f) THEN "min_value" ELSE "max_value",
                               child, f.alpha, f.beta, depth))
               /\ UNCHANGED <<rng, ret>>
    /\ UNCHANGED <<config, state, humans, transposition_table, rec, by_fresh, prev>>

\* the caller's loop body after the call returned val
Receive ==
    /\ ~Idle
    /\ ret # None
    /\ LET f == Top
           val == ret[1]
           better == Better(f, val)
           best == IF better THEN val ELSE f.best
       IN IF CutsOff(f, best)
          THEN /\ stack' = Pop
               /\ ret' = <<best>>
               /\ transposition_table' =
                      ReturnByCutoff(transposition_table, TranspositionString(f.st), best)
          ELSE /\ stack' = [stack EXCEPT ![Len(stack)] =
                      [f EXCEPT !.best = best,
                                !.best_action = IF IsRoot(f) /\ better
                                                THEN Head(f.acts) ELSE f.best_action,
                                !.alpha = IF IsMaxFrame(f) THEN Max2(f.alpha, best)
                                          ELSE f.alpha,
                                !.beta = IF IsMaxFrame(f) THEN f.beta
                                         ELSE Min2(f.beta, best),
                                !.acts = Tail(f.acts)]]
               /\ ret' = None
               /\ UNCHANGED transposition_table
    /\ UNCHANGED <<config, rng, state, humans, nodes_expanded, rec, by_fresh, prev>>

\* the loop over the actions ended without a cutoff
Finish ==
    /\ ~Idle
    /\ ret = None
    /\ Top.acts = <<>>
    /\ LET f == Top
       IN IF IsRoot(f)
          THEN /\ rec' = <<[value |-> f.best, move |-> f.best_action,
                            nodes |-> nodes_expanded]>>
               /\ ret' = None
               /\ UNCHANGED transposition_table
          ELSE /\ transposition_table' =
                      StoreEntry(transposition_table, TranspositionString(f.st), f.best)
               /\ ret' = <<f.best>>
               /\ UNCHANGED rec
    /\ stack' = Pop
    /\ UNCHANGED <<config, rng, state, humans, nodes_expanded, by_fresh, prev>>

(***************************************************************************)
(* Players.py and play_full_games.py                                       *)
(***************************************************************************)
\* HumanMenu.ask_move: any legal action, then the loop applies it; the
\* humans choose the opening moves, before an engine is first asked
HumanMove ==
    /\ Idle
    /\ rec = None
    /\ nodes_expanded = 0
    /\ ~IsTerminal(state)
    /\ humans < MaxHumanMoves
    /\ \E i \in 1..Len(Actions(state)) : state' = Result(state, Actions(state)[i])
    /\ humans' = humans + 1
    /\ prev' = None
    /\ UNCHANGED <<config, rng, nodes_expanded, transposition_table, stack, ret, rec, by_fresh>>

\* a game between two HumanMenu players: whoever is to move chooses any of
\* the actions, and the loop applies it (play_full_games.py lines 31-41)
AnyMove ==
    /\ Idle
    /\ rec = None
    /\ nodes_expanded = 0
    /\ ~IsTerminal(state)
    /\ \E i \in 1..Len(Actions(state)) : state' = Result(state, Actions(state)[i])
    /\ humans' = humans + 1
    /\ UNCHANGED <<config, rng, nodes_expanded, transposition_table, stack, ret, rec, by_fresh, prev>>

\* the game loop applies the engine's choice
ApplyMove ==
    /\ Idle
    /\ rec # None
    /\ state' = Result(state, rec[1].move)
    /\ rec' = None
    /\ prev' = None
    /\ UNCHANGED <<config, rng, humans, nodes_expanded, transposition_table, stack, ret, by_fresh>>

\* a second ask_move on the state just decided, as compute_firstmove.py asks
\* again on the initial state: the earlier record is kept for comparison
AskAgain ==
    /\ Idle
    /\ rec # None
    /\ prev = None
    /\ prev' = <<[rec |-> rec[1], by_fresh |-> by_fresh]>>
    /\ rec' = None
    /\ UNCHANGED <<config, rng, state, humans, nodes_expanded, transposition_table,
                   stack, ret, by_fresh>>

\* the state just decided is given to a new decision on the mirror game; the
\* earlier record and table are kept for comparison
AskMirror ==
    /\ Idle
    /\ rec # None
    /\ prev = None
    /\ game = "svr"
    /\ game' = "svr_mirror"
    /\ prev' = <<[rec |-> rec[1], by_fresh |-> by_fresh, table |-> transposition_table]>>
    /\ rec' = None
    /\ UNCHANGED <<depth_limit, move_limit, dim, rng, state, humans, nodes_expanded,
                   transposition_table, stack, ret, by_fresh>>

(***************************************************************************)
(* Initial states and specifications.                                      *)
(***************************************************************************)
\* a game at its initial state and a newly constructed engine
InitRun ==
    /\ state = InitialState
    /\ humans = 0
    /\ nodes_expanded = 0
    /\ transposition_table = <<>>
    /\ stack = <<>>
    /\ ret = None
    /\ rec = None
    /\ by_fresh = TRUE
    /\ prev = None

\* TicTacToe.Game(): depth_limit 0, the search is never cut off
InitTTT ==
    /\ game = "ttt"
    /\ depth_limit = 0
    /\ move_limit = 0
    /\ dim = 3
    /\ rng = 0
    /\ InitRun

\* TicTacToe.Game(depthlimit=1), as play_full_games.py builds it
InitTTTRandom ==
    /\ game = "ttt"
    /\ depth_limit = 1
    /\ move_limit = 0
    /\ dim = 3
    /\ rng \in 0..(NumSeeds - 1)
    /\ InitRun

\* SithVRebels.Game(dim, depthlimit, movelimit)
InitSVR ==
    /\ game = "svr"
    /\ depth_limit = SvrDeepLimit
    /\ move_limit = SvrMoveLimit
    /\ dim = SvrDim
    /\ rng = 0
    /\ InitRun

\* TicTacToe.Game() with unlimited depth, the engines playing both sides
InitPlay ==
    /\ game = "ttt"
    /\ depth_limit = 0
    /\ move_limit = 0
    /\ dim = 3
    /\ rng = 0
    /\ InitRun

\* SithVRebels.Game(movelimit=...): the default 5x5 board and depth limit
InitSVRDefault ==
    /\ game = "svr"
    /\ depth_limit = 0
    /\ move_limit = BoardMoveLimit
    /\ dim = DefaultDim
    /\ rng = 0
    /\ InitRun

Init == InitTTT \/ InitTTTRandom \/ InitSVR

Next ==
    \/ StartDecision
    \/ Call
    \/ Receive
    \/ Finish
    \/ HumanMove
    \/ ApplyMove

\* compute_firstmove.py: decisions asked again and again on the initial state
NextAgain ==
    \/ StartDecision
    \/ Call
    \/ Receive
    \/ Finish
    \/ NewEngine
    \/ AskAgain

NextPlay ==
    \/ StartDecision
    \/ Call
    \/ Receive
    \/ Finish
    \/ ApplyMove

Spec == Init /\ [][Next]_vars

SpecTTT == InitTTT /\ [][Next]_vars

SpecSVR == InitSVR /\ [][Next]_vars

SpecAgain == (InitTTTRandom \/ InitSVR) /\ [][NextAgain]_vars

\* the loop of an invocation has an action left to try
CallPending == ~Idle /\ ret = None /\ Top.acts # <<>>

\* The interpreter runs the one thread of play_full_games.py without ever
\* stopping: whichever step is due is eventually taken.  For Call the weak
\* fairness condition is written out, with CallPending for ENABLED <<Call>>_vars.
SpecPlay ==
    /\ InitPlay
    /\ [][NextPlay]_vars
    /\ WF_vars(StartDecision)
    /\ WF_vars(Receive)
    /\ WF_vars(Finish)
    /\ WF_vars(ApplyMove)
    /\ ([]<>(~CallPending) \/ []<><<Call>>_vars)

NextGame == AnyMove

\* every game the two Game classes allow, whoever chooses the moves
SpecGame == (InitTTT \/ InitSVR) /\ [][NextGame]_vars

\* every game on the default board of SithVRebels
SpecBoard == InitSVRDefault /\ [][NextGame]_vars

NextMirror ==
    \/ StartDecision
    \/ Call
    \/ Receive
    \/ Finish
    \/ HumanMove
    \/ AskMirror

\* a decision on SithVRebels, then a decision on its mirror at the same state
SpecMirror == InitSVR /\ [][NextMirror]_vars

(***************************************************************************)
(* Plain minimax: no pruning, no table, the same tree.  The levels         *)
(* alternate as the engine's do, from the side to move at the root.        *)
(***************************************************************************)
Greatest(vals) == CHOOSE v \in vals : \A w \in vals : v >= w

Least(vals) == CHOOSE v \in vals : \A w \in vals : v <= w

RECURSIVE Plain(_, _, _)
Plain(s, depth, isMax) ==
    IF IsTerminal(s) THEN Utility(s)
    ELSE IF CutoffTest(s, depth) THEN Eval(s, 0)
    ELSE IF Actions(s) = <<>> THEN (IF isMax THEN -ifny ELSE ifny)
    ELSE IF isMax
    THEN Greatest({Plain(Result(s, Actions(s)[i]), depth + 1, FALSE) :
                      i \in 1..Len(Actions(s))})
    ELSE Least({Plain(Result(s, Actions(s)[i]), depth + 1, TRUE) :
                   i \in 1..Len(Actions(s))})

\* eval is a fixed function of the state wherever Plain consults it
PlainDefined == game = "svr" \/ depth_limit = 0

\* the plain value of the successor by the i-th action of the root
SuccessorValue(i) == Plain(Result(state, Actions(state)[i]), 1, ~IsMaxsTurn(state))

\* the actions of the root whose successors have the best plain value
BestActions ==
    LET root == Plain(state, 0, IsMaxsTurn(state))
    IN {i \in 1..Len(Actions(state)) : SuccessorValue(i) = root}

\* the successor the invocation on top of the stack has just been given a
\* value for, and its key
ReturnedChild == Result(Top.st, Head(Top.acts))

ReturnedKey == TranspositionString(ReturnedChild)

\* the invocation that just returned had reached its expansion branch
ReturnedFromExpansion ==
    /\ ~Idle
    /\ ret # None
    /\ ~IsTerminal(ReturnedChild)
    /\ ~CutoffTest(ReturnedChild, Top.depth + 1)

(***************************************************************************)
(* C1: on TicTacToe, the value of the record a decision returns equals     *)
(* the value plain minimax computes for the same state and depth limit.    *)
(***************************************************************************)
C1_PruningEquivalenceTTT ==
    (game = "ttt" /\ PlainDefined /\ rec # None)
        => rec[1].value = Plain(state, 0, IsMaxsTurn(state))

(***************************************************************************)
(* C2: on SithVRebels, the value of the record a decision returns equals   *)
(* the value plain minimax computes over the same tree.                    *)
(***************************************************************************)
C2_PruningEquivalenceSVR ==
    (game = "svr" /\ rec # None)
        => rec[1].value = Plain(state, 0, IsMaxsTurn(state))

(***************************************************************************)
(* C3: whenever the table holds an entry for the state an invocation was   *)
(* just asked about (the entry was just written or just read), the entry   *)
(* is that state's plain minimax value, not a bound on it.                 *)
(***************************************************************************)
C3_TableExact ==
    (PlainDefined /\ ~Idle /\ ret # None
        /\ ReturnedKey \in DOMAIN transposition_table)
        => transposition_table[ReturnedKey]
               = Plain(ReturnedChild, Top.depth + 1, ~IsMaxFrame(Top))

(***************************************************************************)
(* C4: the table changes only when a decision resets it or when an         *)
(* invocation that has gone through all its actions, none of them cutting  *)
(* it off, stores its best value under its own key; a return by cutoff, by *)
(* table hit, by terminal utility or by eval leaves the table as it was.   *)
(***************************************************************************)
C4_WrittenOnlyAfterExhaustion ==
    [][transposition_table' # transposition_table =>
          \/ Idle /\ transposition_table' = <<>>
          \/ /\ ~Idle
             /\ ret = None
             /\ Top.acts = <<>>
             /\ ~IsRoot(Top)
             /\ ~CutsOff(Top, Top.best)
             /\ transposition_table' =
                    StoreEntry(transposition_table, TranspositionString(Top.st),
                               Top.best)]_vars

\* an invocation has just returned through a cutoff, its key not in the
\* table, while the table holds what exhausted invocations stored
C4_Witness ==
    /\ ReturnedFromExpansion
    /\ ReturnedKey \notin DOMAIN transposition_table
    /\ transposition_table # <<>>

(***************************************************************************)
(* C5: when two or more actions of the root lead to successors of equal    *)
(* minimax value and that value is the best for the side to move, the      *)
(* decision returns the first of them in the order of actions(state).      *)
(***************************************************************************)
C5_RootTieBreak ==
    (game = "ttt" /\ PlainDefined /\ rec # None /\ Cardinality(BestActions) >= 2)
        => rec[1].move = Actions(state)[Least(BestActions)]

(***************************************************************************)
(* C6: two decisions on the same state, each by a freshly constructed      *)
(* engine, return the same value and the same move.                        *)
(***************************************************************************)
C6_Deterministic ==
    (rec # None /\ prev # None /\ by_fresh /\ prev[1].by_fresh)
        => /\ rec[1].value = prev[1].rec.value
           /\ rec[1].move = prev[1].rec.move

(***************************************************************************)
(* C7: every decision starts with an empty table and a counter that has    *)
(* counted only the root, and a decision by an engine that has decided     *)
(* before returns the value, move and node count that a freshly            *)
(* constructed engine returned for the same state.                         *)
(***************************************************************************)
C7_PerDecisionReset ==
    /\ (Len(stack) = 1 /\ ret = None /\ Top.acts = Actions(Top.st))
           => (transposition_table = <<>> /\ nodes_expanded = 1)
    /\ (rec # None /\ prev # None /\ ~by_fresh /\ prev[1].by_fresh)
           => rec[1] = prev[1].rec

(***************************************************************************)
(* C8: from TicTacToe's initial state with unlimited depth, the game in    *)
(* which both sides play the engine's move ends, and ends in a state of    *)
(* utility 0.                                                              *)
(***************************************************************************)
C8_OptimalPlayDraws ==
    /\ <>(IsTerminal(state) /\ Utility(state) = 0)
    /\ [](IsTerminal(state) => Utility(state) = 0)

\* the engines have played the game to its end
C8_Witness ==
    /\ game = "ttt"
    /\ depth_limit = 0
    /\ IsTerminal(state)
    /\ Utility(state) = 0
    /\ Len(state.blanks) = 0

(***************************************************************************)
(* C9: the decision on the empty TicTacToe board with unlimited depth      *)
(* returns value 0 and a move that is a legal action of the empty board.   *)
(***************************************************************************)
C9_EmptyBoard ==
    (game = "ttt" /\ depth_limit = 0 /\ state = TInitialState /\ rec # None)
        => /\ rec[1].value = 0
           /\ InSeq(rec[1].move, Actions(TInitialState))

\* the decision on the empty board has returned
C9_Witness ==
    /\ game = "ttt"
    /\ depth_limit = 0
    /\ state = TInitialState
    /\ rec # None
    /\ rec[1].nodes > 1

(***************************************************************************)
(* C10: the counter is set to 1 when a decision starts and grows by        *)
(* exactly 1 with every invocation that reaches its expansion branch, and  *)
(* at no other step; the record carries it, so it is at least 1, and it is *)
(* exactly 1 when every successor of the root is terminal.                 *)
(***************************************************************************)
C10_NodeCounting ==
    /\ [][/\ Len(stack') = Len(stack) + 1 =>
                nodes_expanded' = (IF Idle THEN 1 ELSE nodes_expanded + 1)
          /\ Len(stack') # Len(stack) + 1 => nodes_expanded' = nodes_expanded
          /\ rec' # None => rec'[1].nodes = nodes_expanded']_vars
    /\ [](rec # None => rec[1].nodes >= 1)
    /\ [](rec # None
             /\ (\A i \in 1..Len(Actions(state)) :
                     IsTerminal(Result(state, Actions(state)[i])))
             => rec[1].nodes = 1)

\* a decision on a root all of whose successors are terminal has returned
C10_Witness ==
    /\ rec # None
    /\ \A i \in 1..Len(Actions(state)) :
           IsTerminal(Result(state, Actions(state)[i]))
    /\ rec[1].nodes = 1

(***************************************************************************)
(* The games' state contracts, over every game two players can play.       *)
(***************************************************************************)
\* the board a TicTacToe key spells out
KeyBoard(key) == [rc \in Cells |-> key[3 * (rc[1] - 1) + rc[2]]]

Lines ==
    {{<<r, c>> : c \in 1..3} : r \in 1..3} \cup {{<<r, c>> : r \in 1..3} : c \in 1..3}
    \cup {{<<d, d>> : d \in 1..3}, {<<d, 4 - d>> : d \in 1..3}}

HasLine(board, token) == \E line \in Lines : \A rc \in line : board[rc] = token

Count(board, token) == Cardinality({rc \in Cells : board[rc] = token})

\* C11: in TicTacToe every reachable state is what its key says: the
\* cached stringified is str(state), and the cell contents, the blanks, the
\* side to move and cachedWin/cachedWinner are functions of the key alone,
\* so two reachable states with equal keys are the same position.
C11_KeyInjectivityTTT ==
    game = "ttt" =>
        LET key == TranspositionString(state)
            board == KeyBoard(key)
        IN /\ state.stringified = TStr(state.gameState)
           /\ state.gameState = board
           /\ {state.blanks[i] : i \in 1..Len(state.blanks)} = {rc \in Cells : board[rc] = " "}
           /\ Len(state.blanks) = Count(board, " ")
           /\ state.maxs_turn = (Count(board, "X") = Count(board, "O"))
           /\ state.cachedWin = (HasLine(board, "X") \/ HasLine(board, "O"))
           /\ state.cachedWinner = IF HasLine(board, "X") THEN "True"
                                   ELSE IF HasLine(board, "O") THEN "False" ELSE "None"

\* a won position with blanks left, reached by playing
C11_Witness ==
    /\ game = "ttt"
    /\ state.cachedWin
    /\ state.cachedWinner = "False"
    /\ Len(state.blanks) = 3
    /\ humans = 6

\* the states n or fewer moves after s, no move made on a terminal state
RECURSIVE Within(_, _)
Within(s, n) ==
    IF n = 0 \/ IsTerminal(s) THEN {s}
    ELSE {s} \cup UNION {Within(Result(s, Actions(s)[i]), n - 1) : i \in 1..Len(Actions(s))}

\* C12: in SithVRebels two reachable states with equal keys have the same
\* side to move, the same is_terminal result and the same utility (here: any
\* two states at most three moves after a common reachable state).
C12_KeyInjectivitySVR ==
    game = "svr" =>
        \A t1, t2 \in Within(state, 3) :
            TranspositionString(t1) = TranspositionString(t2) =>
                /\ IsMaxsTurn(t1) = IsMaxsTurn(t2)
                /\ IsTerminal(t1) = IsTerminal(t2)
                /\ Utility(t1) = Utility(t2)

\* C13: in both games result(s, a) has the opposite side to move from s,
\* for every reachable non-terminal s and every a in actions(s), the pass
\* token included, and is_maxs_turn and is_mins_turn are complementary.
C13_TurnAlternation ==
    /\ IsMaxsTurn(state) = ~IsMinsTurn(state)
    /\ ~IsTerminal(state) =>
           \A i \in 1..Len(Actions(state)) :
               IsMaxsTurn(Result(state, Actions(state)[i])) = ~IsMaxsTurn(state)

\* C14: in both games every reachable state that is not terminal has at
\* least one action; in SithVRebels that is the single pass token None on
\* Max's turn when no Rebel or Jedi can move, and at least one Sith move on
\* Min's turn.
C14_ActionsNonEmpty ==
    ~IsTerminal(state) =>
        /\ Len(Actions(state)) >= 1
        /\ game = "svr" /\ IsMaxsTurn(state) =>
               IF SRebelActions(state) \o SJediActions(state) = <<>>
               THEN Actions(state) = <<None>>
               ELSE ~InSeq(None, Actions(state))
        /\ game = "svr" /\ IsMinsTurn(state) =>
               /\ Actions(state) = SSithActions(state)
               /\ ~InSeq(None, Actions(state))

\* Max to move, not terminal, and no Rebel or Jedi can move
C14_Witness ==
    /\ game = "svr"
    /\ ~IsTerminal(state)
    /\ IsMaxsTurn(state)
    /\ SRebelActions(state) \o SJediActions(state) = <<>>
    /\ Actions(state) = <<None>>

\* the objects of heap h are as they were in heap h0
Untouched(h0, h) == \A k \in 1..Len(h0) : h[k] = h0[k]

\* C15: result never mutates its input.  With the state s held in a heap,
\* result(s, a) returns a new object that is the successor, leaves every
\* object of s as it was, and a further result on the returned state
\* changes neither s nor the returned state.
C15_ResultNeverMutates ==
    ~IsTerminal(state) =>
        \A i \in 1..Len(Actions(state)) :
            LET a == Actions(state)[i]
                h0 == Alloc(state)
                r == HeapResult(h0.heap, h0.ref, a)
                t == Result(state, a)
            IN /\ r.ref \notin 1..Len(h0.heap)
               /\ Untouched(h0.heap, r.heap)
               /\ Deref(r.heap, h0.ref) = state
               /\ Deref(r.heap, r.ref) = t
               /\ ~IsTerminal(t) =>
                      \A j \in 1..Len(Actions(t)) :
                          LET r2 == HeapResult(r.heap, r.ref, Actions(t)[j])
                          IN /\ Untouched(r.heap, r2.heap)
                             /\ Deref(r2.heap, h0.ref) = state
                             /\ Deref(r2.heap, r.ref) = t
                             /\ Deref(r2.heap, r2.ref) = Result(t, Actions(t)[j])

\* a state reached by two moves on which two more results are applied
C15_Witness ==
    /\ humans = 2
    /\ ~IsTerminal(state)
    /\ LET h0 == Alloc(state)
           r == HeapResult(h0.heap, h0.ref, Actions(state)[1])
           t == Deref(r.heap, r.ref)
       IN /\ t # state
          /\ ~IsTerminal(t)
          /\ Deref(HeapResult(r.heap, r.ref, Actions(t)[1]).heap, h0.ref) = state

\* C16: in TicTacToe the win check made after each move agrees with a check
\* of the whole board: cachedWin holds iff some row, column or diagonal is
\* filled with one token, cachedWinner tells whether that token is X,
\* is_terminal holds iff there is such a line or no blank cell is left, and
\* utility is +1 for a line of X, -1 for a line of O and 0 otherwise.
C16_IncrementalWinCheck ==
    game = "ttt" =>
        LET board == state.gameState
            lineX == HasLine(board, "X")
            lineO == HasLine(board, "O")
        IN /\ state.cachedWin = (lineX \/ lineO)
           /\ ~(lineX /\ lineO)
           /\ (state.cachedWinner = "True") = lineX
           /\ (state.cachedWinner = "False") = lineO
           /\ IsTerminal(state) = (lineX \/ lineO \/ Count(board, " ") = 0)
           /\ Utility(state) = IF lineX THEN Unit ELSE IF lineO THEN -Unit ELSE 0

\* a game won by X on the rising diagonal, with blanks left
C16_Witness ==
    /\ game = "ttt"
    /\ humans = 7
    /\ \A d \in 1..3 : state.gameState[<<d, 4 - d>>] = "X"
    /\ state.cachedWin
    /\ Utility(state) = Unit

\* C17: in SithVRebels is_terminal holds exactly for the cached wins and
\* draws and for the states whose moves_made has reached move_limit, so no
\* game holds more than move_limit moves; and a state that is terminal by
\* the move limit only has utility 0.
C17_MoveLimit ==
    game = "svr" =>
        /\ IsTerminal(state) = (state.cachedTerminal \/ state.moves_made >= move_limit)
        /\ state.moves_made <= move_limit
        /\ IsTerminal(state) /\ ~state.cachedTerminal => Utility(state) = 0

Pieces(s) == Len(s.rebels) + Len(s.jedi) + Len(s.sith)

\* C18: on the default 5x5 board eval(state) = 2*|rebels| + 10*|jedi| -
\* 5*|sith| stays within [-100, 100], the range of utility, at every
\* reachable state; the board never holds more than its six initial pieces
\* and no result adds one.
C18_EvalInUtilityRange ==
    game = "svr" /\ dim = DefaultDim =>
        /\ Eval(state, rng) = 2 * Len(state.rebels) + 10 * Len(state.jedi)
                              - 5 * Len(state.sith)
        /\ Eval(state, rng) >= -100
        /\ Eval(state, rng) <= 100
        /\ Utility(state) \in {-100, 0, 100}
        /\ Pieces(state) <= DefaultDim + 1
        /\ ~IsTerminal(state) =>
               \A i \in 1..Len(Actions(state)) :
                   Pieces(Result(state, Actions(state)[i])) <= Pieces(state)

\* a Rebel was promoted and the Jedi converted: two Sith, four Rebels
C18_Witness ==
    /\ game = "svr"
    /\ dim = DefaultDim
    /\ Len(state.sith) = 2
    /\ Len(state.rebels) = 4
    /\ Eval(state, rng) = -2

\* the state the running invocation passes, or has just passed, to its call
Called == Result(Top.st, Head(Top.acts))

\* C19: __max_value and __min_value check the table, then is_terminal, then
\* cutoff_test, then expand.  A state whose key is in the table returns the
\* stored value whatever its window, depth and terminal status are, and the
\* counter and the table stay as they are; a terminal state returns its
\* utility also at a depth where cutoff_test holds; eval is returned only
\* for a state that is neither; any other state is expanded and counted.
C19_OrderOfChecks ==
    [][CallPending =>
          LET key == TranspositionString(Called)
          IN IF key \in DOMAIN transposition_table
             THEN /\ ret' = <<transposition_table[key]>>
                  /\ UNCHANGED <<nodes_expanded, transposition_table, stack, rng>>
             ELSE IF IsTerminal(Called)
             THEN /\ ret' = <<Utility(Called)>>
                  /\ UNCHANGED <<nodes_expanded, transposition_table, stack, rng>>
             ELSE IF CutoffTest(Called, Top.depth + 1)
             THEN /\ ret' = <<Eval(Called, rng)>>
                  /\ UNCHANGED <<nodes_expanded, transposition_table, stack>>
             ELSE /\ ret' = None
                  /\ nodes_expanded' = nodes_expanded + 1
                  /\ Len(stack') = Len(stack) + 1
                  /\ stack'[Len(stack')].st = Called
                  /\ UNCHANGED transposition_table]_vars

\* a call has just returned the utility of a terminal state that is not in
\* the table and lies at a depth where cutoff_test holds
C19_Witness ==
    /\ ~Idle
    /\ ret # None
    /\ Top.acts # <<>>
    /\ TranspositionString(Called) \notin DOMAIN transposition_table
    /\ IsTerminal(Called)
    /\ CutoffTest(Called, Top.depth + 1)
    /\ ret = <<Utility(Called)>>
    /\ Utility(Called) # 0

\* C20: in the game loop the move of every decision's record is a member of
\* actions(state) for the state the engine was asked about, so the loop's
\* assertion holds, and the move is None only when the pass token is the
\* state's only action.
C20_MoveIsLegal ==
    rec # None =>
        /\ ~IsTerminal(state)
        /\ InSeq(rec[1].move, Actions(state))
        /\ rec[1].move = None => Actions(state) = <<None>>

\* a decision of the engine in mid-game, in either game
C20_Witness ==
    /\ rec # None
    /\ humans = 2
    /\ game = "svr"
    /\ nodes_expanded > 10
    /\ Len(Actions(state)) > 1
    /\ InSeq(rec[1].move, Actions(state))

\* C21: the decision on a state of the mirror game (minimax_decision_min
\* where the game itself runs minimax_decision_max, and the other way
\* round) returns the negated value, the same move and the same node count,
\* and its table holds the same keys with negated values.
C21_MirrorSymmetry ==
    (Mirrored /\ rec # None /\ prev # None) =>
        /\ rec[1].value = -prev[1].rec.value
        /\ rec[1].move = prev[1].rec.move
        /\ rec[1].nodes = prev[1].rec.nodes
        /\ DOMAIN transposition_table = DOMAIN prev[1].table
        /\ \A k \in DOMAIN transposition_table :
               transposition_table[k] = -prev[1].table[k]

\* both decisions are made, with a value other than 0 and a table in use
C21_Witness ==
    /\ Mirrored
    /\ rec # None
    /\ prev # None
    /\ humans = 1
    /\ IsMaxsTurn(state)
    /\ rec[1].value = -prev[1].rec.value
    /\ rec[1].value # 0
    /\ rec[1].nodes > 10
    /\ Cardinality(DOMAIN transposition_table) > 5

\* the window of every running invocation is open, and an invocation about
\* to call a child has its best strictly inside the side it cuts on
WindowOpen ==
    /\ \A i \in 1..Len(stack) : stack[i].alpha < stack[i].beta
    /\ CallPending =>
           IF IsMaxFrame(Top) THEN Top.best < Top.beta ELSE Top.best > Top.alpha

\* within one invocation a max node only raises alpha and a min node only
\* lowers beta
WindowMoves ==
    \A i \in 1..Len(stack) :
        i <= Len(stack') =>
            IF IsMaxFrame(stack[i])
            THEN stack'[i].alpha >= stack[i].alpha /\ stack'[i].beta = stack[i].beta
            ELSE stack'[i].beta <= stack[i].beta /\ stack'[i].alpha = stack[i].alpha

\* C22: in every invocation of __max_value and __min_value alpha < beta holds
\* on entry (the caller's window at the call, and the window of every
\* frame); within a max node alpha never decreases and beta is unchanged,
\* within a min node beta never increases and alpha is unchanged; and a node
\* calls a further child only while best < beta (max) or best > alpha (min).
C22_WindowInvariant == []WindowOpen /\ [][WindowMoves]_vars

\* three levels deep, with both ends of the window tightened and a child
\* about to be called
C22_Witness ==
    /\ CallPending
    /\ Len(stack) >= 3
    /\ Top.alpha > -ifny
    /\ Top.beta < ifny
    /\ Top.best # ifny
    /\ Top.best # -ifny

====
